---- MODULE Spec2Model ----
(***************************************************************************)
(* Model of the crawler's handler core: BaseHandler (version selection,    *)
(* tool links, temp files), MavenExtract (recursive parent-pom manifest    *)
(* resolution), DockerFetch and DockerExtract (embedded packages).         *)
(***************************************************************************)
EXTENDS Integers, Sequences, FiniteSets, TLC

VARIABLES
  pc,             \* position of the running handler
  processMode,    \* request.processMode
  document,       \* request.document
  links,          \* edges emitted through request.linkResource / linkSiblings / addEmbeddedComponent
  queue,          \* follow-on work items emitted through request.queue
  processControl, \* request.processControl ("" or "skip")
  error,          \* "" or the error that escaped handle
  spec,           \* the identity the handler works on (toSpec(request))
  stack,          \* MavenExtract: poms of the _getManifest calls awaiting their parent manifest
  loc,            \* MavenExtract: file the current _getManifest call reads (0 = document.location)
  ret,            \* MavenExtract: manifest returned by the innermost finished call
  files,          \* content of the temporary files
  created,        \* temporary files created by tmp.fileSync
  registered,     \* temporary files whose removeCallback was given to request.trackCleanup
  registry,       \* maven central: descriptor stored at each parent coordinate
  fetched,        \* history: status of every fetchPom call so far, outermost first
  versions,       \* BaseHandler.getLatestVersion: the argument
  latest,         \* BaseHandler.getLatestVersion: the result
  tools,          \* DockerFetch: history of the external commands that failed
  apk,            \* DockerFetch: result of _getApk
  dpkg,           \* DockerFetch: result of _getDpkg
  image,          \* the packages installed in the docker image
  casedSpec,      \* request.casedSpec: <<>> when unset, else the identity object it holds
  result          \* value returned by the last toSpec / getUrnFor call

vars == <<pc, processMode, document, links, queue, processControl, error, spec, stack, loc,
          ret, files, created, registered, registry, fetched, versions, latest, tools, apk,
          dpkg, image, casedSpec, result>>

mavenVars == <<stack, loc, ret, files, created, registered, registry, fetched>>
versionVars == <<versions, latest>>
dockerVars == <<tools, apk, dpkg, image>>
identityVars == <<casedSpec, result>>

\* ---------------------------------------------------------------- bounds
MaxCoord == 2     \* parent coordinates known to the model: 1..MaxCoord
MaxDepth == 3     \* ancestor levels a resolution may reach before the model stops it
MaxLen == 3       \* longest version list given to getLatestVersion
MaxMajor == 2     \* greatest major version number
MaxPkgs == 2      \* most packages of one kind in a docker image

\* ---------------------------------------------------------------- identities
\* A missing field (null / undefined) is the empty string, which is falsy as in JS.
EntitySpec(type, provider, namespace, name, revision, tool, toolVersion) ==
  [type |-> type, provider |-> provider, namespace |-> namespace, name |-> name,
   revision |-> revision, tool |-> tool, toolVersion |-> toolVersion]

Opt(label, v) == IF v = "" THEN <<>> ELSE label \o <<v>>

\* EntitySpec.toUrn: urn:type:provider:namespace:name[:revision:R][:tool:T][:V]
ToUrn(s) ==
  <<"urn", s.type, s.provider, IF s.namespace = "" THEN "-" ELSE s.namespace, s.name>>
    \o Opt(<<"revision">>, s.revision) \o Opt(<<"tool">>, s.tool) \o Opt(<<>>, s.toolVersion)

\* EntitySpec.toUrl: cd:/type/provider/namespace/name[/revision]
ToUrl(s) ==
  <<"cd:", s.type, s.provider, IF s.namespace = "" THEN "-" ELSE s.namespace, s.name>>
    \o Opt(<<>>, s.revision)

SchemaVersion == "1.1.2"
ToolSpec == [tool |-> "clearlydefined", toolVersion |-> SchemaVersion]

Link(name, type, target) == [name |-> name, type |-> type, target |-> target]

\* ---------------------------------------------------------------- BaseHandler: tool links
\* getUrnFor: Object.assign(Object.create(spec), spec, this.toolSpec).toUrn()
GetUrnFor(s) ==
  ToUrn([s EXCEPT !.tool = ToolSpec.tool, !.toolVersion = ToolSpec.toolVersion])

SiblingSpecNoFill(s) ==
  EntitySpec(s.type, s.provider, s.namespace, s.name, s.revision, s.tool, "")

\* addBasicToolLinks, the identity of the sibling edge: new EntitySpec(type, provider,
\* namespace, name, revision, tool); tool = tool || toolSpec.tool; delete toolVersion
SiblingSpec(s) ==
  LET newSpec == EntitySpec(s.type, s.provider, s.namespace, s.name, s.revision, s.tool, "")
  IN [newSpec EXCEPT !.tool = IF newSpec.tool # "" THEN newSpec.tool ELSE ToolSpec.tool,
                     !.toolVersion = ""]

\* addBasicToolLinks: linkResource('self', ...) then linkSiblings(...)
BasicToolLinks(s) ==
  <<Link("self", "resource", GetUrnFor(s)), Link("siblings", "collection", ToUrn(SiblingSpec(s)))>>

\* linkAndQueue(request, name, spec): one edge and one work item for the same identity
LinkAndQueueLinks(name, s) == <<Link(name, "resource", ToUrn(s))>>
LinkAndQueueItems(name, s) == <<[type |-> name, url |-> ToUrl(s)]>>

\* ---------------------------------------------------------------- BaseHandler: versions
\* A version is major.0.0 with an optional pre-release tag: pre = 0 none, 1 alpha, 2 beta.
Versions == [major : 1..MaxMajor, pre : 0..2]

\* semver.prerelease(version) !== null
IsPreReleaseVersion(v) == v.pre # 0

\* semver.gt(a, b): main version first; on equal main version a release is greater than a
\* pre-release, and pre-release tags compare in order
SemverGt(a, b) ==
  \/ a.major > b.major
  \/ /\ a.major = b.major
     /\ \/ a.pre = 0 /\ b.pre # 0
        \/ a.pre # 0 /\ b.pre # 0 /\ a.pre > b.pre

\* versions.filter(v => !this.isPreReleaseVersion(v))
FilterReleases(vs) == SelectSeq(vs, LAMBDA v : ~IsPreReleaseVersion(v))

\* list.reduce((max, current) => (semver.gt(current, max) ? current : max), seed)
RECURSIVE ReduceMax(_, _)
ReduceMax(list, max) ==
  IF list = <<>> THEN max
  ELSE ReduceMax(Tail(list), IF SemverGt(Head(list), max) THEN Head(list) ELSE max)

\* getLatestVersion; the argument is an array (isArray, list) or a single value carried
\* in list, the result is <<>> for null and <<v>> for a version
GetLatestVersion(vs) ==
  IF ~vs.isArray THEN vs.list
  ELSE IF Len(vs.list) = 0 THEN <<>>
  ELSE IF Len(vs.list) = 1 THEN <<vs.list[1]>>
  ELSE <<ReduceMax(FilterReleases(vs.list), vs.list[1])>>

\* ---------------------------------------------------------------- MavenExtract: descriptors
\* A descriptor (pom file) is malformed, empty, or a project: a map from field names to
\* values.  Descriptor d gives every field it defines the value d (0 = the component's own
\* pom, c = the pom stored at parent coordinate c), so a value tells which level set it; its
\* parent field holds the coordinate of the parent it names.
Coords == 1..MaxCoord
NotFound == 404

NoProject == [f \in {} |-> 0]
MkProject(d, F, par) ==
  [f \in F \cup {"build"} \cup (IF par = 0 THEN {} ELSE {"parent"}) |->
     IF f = "parent" THEN par ELSE d]

Malformed == [kind |-> "malformed", project |-> NoProject]
EmptyFile == [kind |-> "empty", project |-> NoProject]
Absent == [kind |-> "absent", project |-> NoProject]
Unknown == [kind |-> "unknown", project |-> NoProject]

Poms(d) ==
  {[kind |-> "pom", project |-> MkProject(d, F, par)] :
     F \in SUBSET {"name", "licenses"}, par \in 0..MaxCoord}

\* the fields _getManifest deletes from pom.project
StrippedFields == {"build", "dependencies", "dependencyManagement", "modules", "profiles"}
Strip(project) == [f \in (DOMAIN project) \ StrippedFields |-> project[f]]

\* Object.assign({}, a, b): b's fields override a's
ObjectAssign(a, b) ==
  [f \in (DOMAIN a) \cup (DOMAIN b) |-> IF f \in DOMAIN b THEN b[f] ELSE a[f]]

\* obj.project, NoProject standing for undefined (Object.assign skips an undefined source)
ProjectOf(obj) == IF "project" \in DOMAIN obj THEN obj.project ELSE NoProject

EmptyObject == [f \in {} |-> NoProject]
EmptyManifest == [summary |-> EmptyObject, poms |-> <<>>]

MergePomAppend(pom, manifest) ==
  [summary |-> [project |-> ObjectAssign(ProjectOf(manifest.summary), pom.project)],
   poms |-> Append(manifest.poms, pom)]

MergePomParentWins(pom, manifest) ==
  [summary |-> [project |-> ObjectAssign(pom.project, ProjectOf(manifest.summary))],
   poms |-> <<pom>> \o manifest.poms]

\* _mergePomInto
MergePomInto(pom, manifest) ==
  [summary |-> [project |-> ObjectAssign(ProjectOf(manifest.summary), pom.project)],
   poms |-> <<pom>> \o manifest.poms]

\* _createTempFile: request.trackCleanup(result.removeCallback)
TrackCleanupNever(tracked, file) == tracked

TrackCleanup(tracked, file) == tracked \cup {file}

\* _fetchParentPomManifest, after the fetch returned code: "return" the empty manifest on
\* 404, otherwise "read" the temporary file
AfterFetchNever404(code) == "read"

AfterFetchOnly200(code) == IF code # 200 THEN "return" ELSE "read"

AfterFetch(code) == IF code = NotFound THEN "return" ELSE "read"

\* ---------------------------------------------------------------- MavenExtract: handle
NoFile == [kind |-> "none", project |-> NoProject]

\* the identity of the request handled by MavenExtract
MavenSpec == EntitySpec("maven", "mavencentral", "org", "lib", "1.0", "", "")
GithubSource == EntitySpec("git", "github", "org", "lib", "abc", "", "")

\* _discoverSource: the source finder's answer, else a made-up source archive if the
\* registry lists a sources artifact, else null
DiscoverSource(s, registryData, found) ==
  IF found THEN <<GithubSource>>
  ELSE IF ~registryData.ec THEN <<>>
  ELSE <<[s EXCEPT !.type = "sourcearchive"]>>

NewDocumentFreshMetadata(doc, manifest) ==
  [metaVersion |-> "", location |-> -1, manifest |-> <<manifest>>,
   registryData |-> doc.registryData, releaseDate |-> doc.registryData.timestamp,
   sourceInfo |-> <<>>]

\* _createDocument: request.document = { _metadata: request.document._metadata, manifest,
\* registryData }, plus releaseDate when the registry data has a timestamp
NewDocument(doc, manifest) ==
  [metaVersion |-> doc.metaVersion, location |-> -1, manifest |-> <<manifest>>,
   registryData |-> doc.registryData, releaseDate |-> doc.registryData.timestamp,
   sourceInfo |-> <<>>]

\* what mavenCentral.fetchPom can answer for coordinate c: 200 with the stored descriptor
\* written to the file, 404, a thrown error (code 0), or another status (500) that leaves
\* the file empty or holding an error body.  The registry content of a coordinate is
\* chosen when it is first fetched.
FetchResults(c) ==
  LET known == registry[c]
      stored == IF known.kind = "unknown" THEN Poms(c) \cup {Malformed, Absent} ELSE {known}
  IN {[code |-> IF s.kind = "absent" THEN NotFound ELSE 200, stored |-> s,
       written |-> IF s.kind = "absent" THEN EmptyFile ELSE s] : s \in stored}
     \cup {[code |-> 0, stored |-> known, written |-> EmptyFile]}
     \cup {[code |-> 500, stored |-> known, written |-> w] : w \in {EmptyFile, Malformed}}

\* BaseHandler._process: stamp the schema version on the document's metadata
Process ==
  /\ pc = "start"
  /\ processMode = "process"
  /\ document' = [document EXCEPT !.metaVersion = SchemaVersion]
  /\ pc' = "links"
  /\ UNCHANGED <<casedSpec, result, processMode, links, queue, processControl, error, spec, mavenVars,
                 versionVars, dockerVars>>

\* handle: this.addBasicToolLinks(request, spec), then _getManifest(request, location)
AddBasicToolLinks ==
  /\ pc = "links"
  /\ links' = links \o BasicToolLinks(spec)
  /\ loc' = document.location
  /\ pc' = "read"
  /\ UNCHANGED <<casedSpec, result, processMode, document, queue, processControl, error, spec, stack, ret,
                 files, created, registered, registry, fetched, versionVars, dockerVars>>

\* _getManifest up to the parent test: read, parse, strip
ReadPom ==
  /\ pc = "read"
  /\ LET content == files[loc]
         pom == [project |-> Strip(content.project)]
     IN IF content.kind = "malformed"
        THEN pc' = "failed" /\ error' = "parse" /\ UNCHANGED <<stack, ret>>
        ELSE IF content.kind # "pom"
        THEN pc' = "failed" /\ error' = "type" /\ UNCHANGED <<stack, ret>>
        ELSE IF "parent" \in DOMAIN pom.project
        THEN stack' = Append(stack, pom) /\ pc' = "createTemp" /\ UNCHANGED <<error, ret>>
        ELSE /\ ret' = [summary |-> pom, poms |-> <<pom>>]
             /\ pc' = "return"
             /\ UNCHANGED <<error, stack>>
  /\ UNCHANGED <<casedSpec, result, processMode, document, links, queue, processControl, spec, loc, files,
                 created, registered, registry, fetched, versionVars, dockerVars>>

\* _fetchParentPomManifest: const file = this._createTempFile(request)
CreateTempFile ==
  /\ pc = "createTemp"
  /\ Cardinality(created) < MaxDepth
  /\ LET file == Cardinality(created) + 1
     IN /\ created' = created \cup {file}
        /\ files' = [files EXCEPT ![file] = EmptyFile]
        /\ registered' = TrackCleanup(registered, file)
  /\ pc' = "fetch"
  /\ UNCHANGED <<casedSpec, result, processMode, document, links, queue, processControl, error, spec, stack,
                 loc, ret, registry, fetched, versionVars, dockerVars>>

\* _fetchParentPomManifest: await mavenCentral.fetchPom(spec, file.name) and the 404 test
FetchPom ==
  /\ pc = "fetch"
  /\ LET file == Cardinality(created)
         c == stack[Len(stack)].project.parent
     IN \E r \in FetchResults(c) :
          /\ registry' = [registry EXCEPT ![c] = r.stored]
          /\ fetched' = Append(fetched, r.code)
          /\ IF r.code = 0
             THEN pc' = "failed" /\ error' = "fetch" /\ UNCHANGED <<files, loc, ret>>
             ELSE /\ files' = [files EXCEPT ![file] = r.written]
                  /\ error' = error
                  /\ pc' = AfterFetch(r.code)
                  /\ IF AfterFetch(r.code) = "return"
                     THEN ret' = EmptyManifest /\ loc' = loc
                     ELSE loc' = file /\ ret' = ret
  /\ UNCHANGED <<casedSpec, result, processMode, document, links, queue, processControl, spec, stack, created,
                 registered, versionVars, dockerVars>>

\* _getManifest: return this._mergePomInto(pom, parentManifest)
MergePom ==
  /\ pc = "return"
  /\ stack # <<>>
  /\ ret' = MergePomInto(stack[Len(stack)], ret)
  /\ stack' = SubSeq(stack, 1, Len(stack) - 1)
  /\ UNCHANGED <<casedSpec, result, pc, processMode, document, links, queue, processControl, error, spec, loc,
                 files, created, registered, registry, fetched, versionVars, dockerVars>>

\* handle after the manifest is back: _createDocument, attachInterestinglyNamedFiles (the
\* new document has no location: nothing attached), then the source link
CreateDocument ==
  /\ pc = "return"
  /\ stack = <<>>
  /\ \E found \in BOOLEAN :
       LET sourceInfo == DiscoverSource(spec, document.registryData, found)
       IN /\ document' = [NewDocument(document, ret) EXCEPT !.sourceInfo = sourceInfo]
          /\ links' = links \o (IF sourceInfo = <<>> THEN <<>>
                                ELSE LinkAndQueueLinks("source", sourceInfo[1]))
          /\ queue' = queue \o (IF sourceInfo = <<>> THEN <<>>
                                ELSE LinkAndQueueItems("source", sourceInfo[1]))
  /\ pc' = "done"
  /\ UNCHANGED <<casedSpec, result, processMode, processControl, error, spec, mavenVars, versionVars,
                 dockerVars>>

\* handle when not processing: only the source link of the stored document
HandleTraverse ==
  /\ pc = "start"
  /\ processMode # "process"
  /\ links' = links \o (IF document.sourceInfo = <<>> THEN <<>>
                        ELSE LinkAndQueueLinks("source", document.sourceInfo[1]))
  /\ queue' = queue \o (IF document.sourceInfo = <<>> THEN <<>>
                        ELSE LinkAndQueueItems("source", document.sourceInfo[1]))
  /\ pc' = "done"
  /\ UNCHANGED <<casedSpec, result, processMode, document, processControl, error, spec, mavenVars,
                 versionVars, dockerVars>>

\* values of the variables a specification does not use
IdleMaven ==
  /\ stack = <<>> /\ loc = 0 /\ ret = EmptyManifest
  /\ files = [i \in 0..MaxDepth |-> NoFile]
  /\ created = {} /\ registered = {}
  /\ registry = [c \in Coords |-> Unknown]
  /\ fetched = <<>>
IdleVersion == versions = [isArray |-> TRUE, list |-> <<>>] /\ latest = <<>>
IdleDocker ==
  /\ tools = <<>> /\ apk = <<>> /\ dpkg = <<>>
  /\ image = [apk |-> <<>>, dpkg |-> <<>>]

RegistryDatas == {[timestamp |-> FALSE, ec |-> FALSE], [timestamp |-> TRUE, ec |-> TRUE]}

Init ==
  /\ pc = "start"
  /\ processMode \in {"process", "traverse"}
  /\ \E rd \in RegistryDatas, v \in {"", "1.0.0"} :
       document = [metaVersion |-> v, location |-> 0, manifest |-> <<>>, registryData |-> rd,
                   releaseDate |-> FALSE,
                   sourceInfo |-> IF processMode = "process" \/ ~rd.ec THEN <<>>
                                  ELSE <<GithubSource>>]
  /\ links = <<>> /\ queue = <<>> /\ processControl = "" /\ error = ""
  /\ spec = MavenSpec
  /\ stack = <<>> /\ loc = 0 /\ ret = EmptyManifest
  /\ \E own \in Poms(0) \cup {Malformed} :
       /\ processMode # "process" => own = Malformed
       /\ files = [i \in 0..MaxDepth |-> IF i = 0 THEN own ELSE NoFile]
  /\ created = {} /\ registered = {}
  /\ registry = [c \in Coords |-> Unknown]
  /\ fetched = <<>>
  /\ casedSpec = <<>> /\ result = <<>>
  /\ IdleVersion /\ IdleDocker

Next ==
  \/ Process
  \/ AddBasicToolLinks
  \/ ReadPom
  \/ CreateTempFile
  \/ FetchPom
  \/ MergePom
  \/ CreateDocument
  \/ HandleTraverse

Spec == Init /\ [][Next]_vars

\* ---------------------------------------------------------------- MavenExtract: properties
Last(s) == s[Len(s)]

\* the top-level _getManifest call has returned
Returned == pc = "return" /\ stack = <<>>
\* _getManifest has returned, or handle has finished in process mode
Resolved == Returned \/ (pc = "done" /\ processMode = "process")
FinalManifest == IF pc = "done" THEN document.manifest[1] ELSE ret
OwnPom == [project |-> Strip(files[0].project)]

\* the ancestor chain as the registry holds it: the stripped descriptors reached from
\* content by following parent references, until a descriptor names no parent or the
\* coordinate is not found
RECURSIVE Chain(_, _)
Chain(content, fuel) ==
  IF content.kind # "pom" THEN <<>>
  ELSE <<[project |-> Strip(content.project)]>>
         \o (IF "parent" \in DOMAIN content.project /\ fuel > 0
             THEN Chain(registry[content.project.parent], fuel - 1)
             ELSE <<>>)

\* C2: the manifest returned by _getManifest lists the fragments as [own descriptor,
\* parent, grandparent, ...]: it is the ancestor chain of the registry in order, it starts
\* with the component's own descriptor, and it has one fragment per ancestor fetched
\* successfully.
C2_FragmentOrder ==
  Resolved =>
    /\ FinalManifest.poms = Chain(files[0], MaxDepth)
    /\ FinalManifest.poms[1] = OwnPom
    /\ Len(FinalManifest.poms) = 1 + Cardinality({i \in 1..Len(fetched) : fetched[i] = 200})

C2_Witness == Returned /\ Len(ret.poms) = 3 /\ fetched = <<200, 200>>

\* C3: the summary of a returned manifest is the override merge of its fragments: it has
\* exactly the fields some fragment defines, each with the value of the most specific
\* (first) fragment defining it.
C3_SummaryIsOverrideMerge ==
  Resolved =>
    LET P == FinalManifest.poms
        fields == UNION {DOMAIN P[i].project : i \in 1..Len(P)}
        first(f) == CHOOSE i \in 1..Len(P) :
                      /\ f \in DOMAIN P[i].project
                      /\ \A j \in 1..(i - 1) : f \notin DOMAIN P[j].project
    IN /\ DOMAIN FinalManifest.summary = {"project"}
       /\ DOMAIN FinalManifest.summary.project = fields
       /\ \A f \in fields : FinalManifest.summary.project[f] = P[first(f)].project[f]

C3_Witness ==
  /\ Returned
  /\ Len(ret.poms) = 3
  /\ "name" \in DOMAIN ret.poms[1].project /\ "name" \in DOMAIN ret.poms[2].project
  /\ "licenses" \notin DOMAIN ret.poms[1].project
  /\ "licenses" \notin DOMAIN ret.poms[2].project
  /\ "licenses" \in DOMAIN ret.poms[3].project

\* C4: a 404 on an ancestor fetch ends the recursion without an error: it is the last
\* fetch, resolution goes on to return, that level adds no fragment, and when the direct
\* parent is not found the manifest is the own descriptor alone.
C4_NotFoundIsAbsorbed ==
  \A i \in 1..Len(fetched) :
    fetched[i] = NotFound =>
      /\ i = Len(fetched)
      /\ pc \in {"return", "done"}
      /\ error = ""
      /\ Resolved =>
           /\ Len(FinalManifest.poms) = Len(fetched)
           /\ Len(fetched) = 1 =>
                FinalManifest = [summary |-> OwnPom, poms |-> <<OwnPom>>]

C4_Witness == pc = "done" /\ fetched = <<NotFound>> /\ Len(document.manifest[1].poms) = 1

\* C5: after an ancestor fetch that failed otherwise than with 404 (thrown, or another
\* status), no manifest is returned and the document is not replaced: handle has failed
\* with an error, or is about to read a file that holds no descriptor, which fails.
C5_FetchFailureAborts ==
  \A i \in 1..Len(fetched) :
    fetched[i] \notin {200, NotFound} =>
      /\ i = Len(fetched)
      /\ document.manifest = <<>>
      /\ \/ pc = "failed" /\ error # ""
         \/ pc = "read" /\ loc # 0 /\ files[loc].kind # "pom"

C5_Witness ==
  /\ pc = "failed" /\ fetched = <<200, 500>> /\ document.manifest = <<>> /\ error = "type"

\* C6: in process mode nothing is emitted, read or fetched before the schema version is
\* stamped, and from then on, through the replacement of the document, the document
\* carries the schema version.
C6_VersionStamped ==
  processMode = "process" =>
    /\ pc = "start" => links = <<>> /\ queue = <<>> /\ created = {} /\ fetched = <<>>
    /\ pc # "start" => document.metaVersion = SchemaVersion

C6_Witness ==
  /\ processMode = "process" /\ pc = "done" /\ document.manifest # <<>>
  /\ document.metaVersion = SchemaVersion /\ fetched # <<>>

\* C10: every temporary file that exists is registered for cleanup, at every point of
\* manifest resolution, in particular while it is being fetched into and on every exit.
C10_TempFilesRegistered ==
  /\ created = registered
  /\ \A i \in 1..MaxDepth : files[i].kind # "none" => i \in registered

C10_Witness == pc = "failed" /\ error = "parse" /\ Cardinality(created) = 2

\* the parent coordinates of the ancestor levels the resolution has reached, outermost first
LevelCoords == [i \in 1..Len(stack) |-> stack[i].project.parent]
Revisits == \E i, j \in 1..Len(stack) : i # j /\ LevelCoords[i] = LevelCoords[j]

\* C13: manifest resolution finishes whatever the shape of the parent chain: it never
\* reaches, as a further ancestor level, a coordinate that is already one of its levels
\* (from there on the registry answers as before and the same levels repeat without end),
\* and it issues one fetch and creates one temporary file per ancestor level it reaches.
C13_ResolutionFinishes ==
  /\ ~Revisits
  /\ Cardinality(created) <= Len(fetched) + 1
  /\ Len(fetched) <= Cardinality(created)

\* the second half alone: one temporary file and one fetch per ancestor level, the newest
\* level being created first and fetched next
C13_OneFetchAndFilePerLevel ==
  /\ created = 1..Cardinality(created)
  /\ Len(fetched) = IF pc = "fetch" THEN Cardinality(created) - 1 ELSE Cardinality(created)
  /\ pc \in {"createTemp", "fetch", "read"} =>
       Cardinality(created) = IF pc = "createTemp" THEN Len(stack) - 1 ELSE Len(stack)

\* handle runs on as long as it can take a step
FairSpec == Spec /\ WF_vars(Next)

\* unless a level is reached twice, resolution ends: handle finishes or fails
C13_FinishesUnlessRevisit == <>(pc \in {"done", "failed"} \/ Revisits)

\* ---------------------------------------------------------------- getLatestVersion
\* values of the request variables in a specification without a request
IdleRequest ==
  /\ processMode = "process"
  /\ document = [metaVersion |-> "", location |-> 0, manifest |-> <<>>,
                 registryData |-> [timestamp |-> FALSE, ec |-> FALSE],
                 releaseDate |-> FALSE, sourceInfo |-> <<>>]
  /\ links = <<>> /\ queue = <<>> /\ processControl = "" /\ error = ""
  /\ casedSpec = <<>> /\ result = <<>>

VersionLists == UNION {[1..n -> Versions] : n \in 0..MaxLen}

InitVersion ==
  /\ pc = "start"
  /\ versions \in {[isArray |-> FALSE, list |-> <<v>>] : v \in Versions}
                    \cup {[isArray |-> TRUE, list |-> l] : l \in VersionLists}
  /\ latest = <<>>
  /\ spec = MavenSpec
  /\ IdleRequest /\ IdleMaven /\ IdleDocker

GetLatestVersionCall ==
  /\ pc = "start"
  /\ latest' = GetLatestVersion(versions)
  /\ pc' = "done"
  /\ UNCHANGED <<casedSpec, result, processMode, document, links, queue, processControl, error, spec,
                 mavenVars, versions, dockerVars>>

NextVersion == GetLatestVersionCall

SpecVersion == InitVersion /\ [][NextVersion]_vars

\* C1: for a list of two or more versions with at least one non-pre-release version,
\* getLatestVersion returns a non-pre-release version of the list that no other
\* non-pre-release version of the list is greater than.
C1_LatestIsGreatestRelease ==
  (pc = "done" /\ versions.isArray /\ Len(versions.list) >= 2
     /\ FilterReleases(versions.list) # <<>>) =>
    \E i \in 1..Len(versions.list) :
      /\ ~IsPreReleaseVersion(versions.list[i])
      /\ latest = <<versions.list[i]>>
      /\ \A j \in 1..Len(versions.list) :
           ~IsPreReleaseVersion(versions.list[j]) =>
             ~SemverGt(versions.list[j], versions.list[i])

\* ---------------------------------------------------------------- addBasicToolLinks
Identities ==
  {EntitySpec(t, "p", ns, n, r, tl, tv) :
     t \in {"maven", "npm"}, ns \in {"", "org"}, n \in {"a", "b"}, r \in {"", "1.0"},
     tl \in {"", "scancode"}, tv \in {"", "2.0"}}

InitLinks ==
  /\ pc = "start"
  /\ spec \in Identities
  /\ IdleRequest /\ IdleMaven /\ IdleVersion /\ IdleDocker

\* a handler calling this.addBasicToolLinks(request, spec)
AddBasicToolLinksCall ==
  /\ pc = "start"
  /\ links' = links \o BasicToolLinks(spec)
  /\ pc' = "done"
  /\ UNCHANGED <<casedSpec, result, processMode, document, queue, processControl, error, spec, mavenVars,
                 versionVars, dockerVars>>

NextLinks == AddBasicToolLinksCall

SpecLinks == InitLinks /\ [][NextLinks]_vars

SelfLinkExpected ==
  Link("self", "resource",
       ToUrn([spec EXCEPT !.tool = "clearlydefined", !.toolVersion = "1.1.2"]))

Newline == <<"\n">>
Delimiter == <<"_", "_", "_">>
Undefined == <<"u", "n", "d", "e", "f", "i", "n", "e", "d">>

\* first position of pattern p in s, 0 if there is none (String.indexOf, 1-based)
IndexOf(s, p) ==
  LET hits == {i \in 1..(Len(s) - Len(p) + 1) : SubSeq(s, i, i + Len(p) - 1) = p}
  IN IF hits = {} THEN 0 ELSE CHOOSE i \in hits : \A j \in hits : i <= j

\* String.split(sep)
RECURSIVE Split(_, _)
Split(s, sep) ==
  LET i == IndexOf(s, sep)
  IN IF i = 0 THEN <<s>>
     ELSE <<SubSeq(s, 1, i - 1)>> \o Split(SubSeq(s, i + Len(sep), Len(s)), sep)

\* String.replace(p, r) with a string pattern: the first occurrence only
ReplaceFirst(s, p, r) ==
  LET i == IndexOf(s, p)
  IN IF i = 0 THEN s ELSE SubSeq(s, 1, i - 1) \o r \o SubSeq(s, i + Len(p), Len(s))

\* String.trim()
RECURSIVE Trim(_)
Trim(s) ==
  IF s = <<>> THEN s
  ELSE IF Head(s) \in {"\n", " "} THEN Trim(Tail(s))
  ELSE IF s[Len(s)] \in {"\n", " "} THEN Trim(SubSeq(s, 1, Len(s) - 1))
  ELSE s

\* array element i, undefined when past the end (as printed inside a template string)
At(parts, i) == IF i <= Len(parts) THEN parts[i] ELSE Undefined

\* ---------------------------------------------------------------- DockerFetch
PkgNames == {<<"a">>, <<"b">>}
PkgVersions == {<<"1">>, <<"2">>}
Pkgs == [name : PkgNames, version : PkgVersions]
PkgLists == UNION {[1..n -> Pkgs] : n \in 0..MaxPkgs}
\* dpkg accepts '_' in a package name (deprecated, not rejected), so a name can hold '___'
DpkgNames == PkgNames \cup {<<"a", "_", "_", "_", "b">>}
DpkgPkgs == [name : DpkgNames, version : PkgVersions]
DpkgPkgLists == UNION {[1..n -> DpkgPkgs] : n \in 0..MaxPkgs}

\* standard output of the commands: every line ends with a newline
RECURSIVE Stdout(_)
Stdout(lines) ==
  IF lines = <<>> THEN <<>> ELSE Head(lines) \o Newline \o Stdout(Tail(lines))

\* apk info
ApkInfo(pkgs) == Stdout([i \in 1..Len(pkgs) |-> pkgs[i].name])
\* apk info -v
ApkInfoV(pkgs) == Stdout([i \in 1..Len(pkgs) |-> pkgs[i].name \o <<"-">> \o pkgs[i].version])
\* dpkg --list | awk 'NR>5 {print $2 "___" $3}'
DpkgList(pkgs) == Stdout([i \in 1..Len(pkgs) |-> pkgs[i].name \o Delimiter \o pkgs[i].version])

DockerSpec == EntitySpec("docker", "dockerhub", "", "node", "11", "", "")
NoDocument == [apk |-> <<>>, dpkg |-> <<>>, location |-> <<>>]

InitDocker ==
  /\ pc = "start"
  /\ processMode = "process"
  /\ document = NoDocument
  /\ links = <<>> /\ queue = <<>> /\ processControl = "" /\ error = ""
  /\ spec = DockerSpec
  /\ tools = <<>> /\ apk = <<>> /\ dpkg = <<>>
  /\ image \in [apk : PkgLists, dpkg : DpkgPkgLists]
  /\ casedSpec = <<>> /\ result = <<>>
  /\ IdleMaven /\ IdleVersion

\* what a rejected promise does to handle
Rejected(tool) ==
  /\ tools' = Append(tools, tool)
  /\ pc' = "failed"
  /\ error' = "exec"

\* canHandle, then _getRevision: docker pull
GetRevisionPull ==
  /\ pc = "start"
  /\ spec.type = "docker"
  /\ \E ok \in BOOLEAN :
       IF ok THEN pc' = "inspect" /\ UNCHANGED <<tools, error>>
       ELSE Rejected("docker pull")
  /\ UNCHANGED <<casedSpec, result, processMode, document, links, queue, processControl, spec, mavenVars,
                 versionVars, apk, dpkg, image>>

\* _getRevision: docker inspect; handle assigns spec.revision, on the object toSpec
\* returned (request.casedSpec itself when it is set), and sets request.url from it
GetRevisionInspect ==
  /\ pc = "inspect"
  /\ \E ok \in BOOLEAN :
       IF ok
       THEN /\ spec' = [spec EXCEPT !.revision = "sha"]
            /\ casedSpec' = IF casedSpec = <<>> THEN casedSpec
                            ELSE <<[casedSpec[1] EXCEPT !.revision = "sha"]>>
            /\ pc' = "apkNames"
            /\ UNCHANGED <<tools, error>>
       ELSE Rejected("docker inspect") /\ UNCHANGED <<spec, casedSpec>>
  /\ UNCHANGED <<result, processMode, document, links, queue, processControl, mavenVars,
                 versionVars, apk, dpkg, image>>

\* _getApk: apk info; an error resolves null, and so does an empty listing
GetApkNames ==
  /\ pc = "apkNames"
  /\ \E ok \in BOOLEAN :
       LET names == Trim(ApkInfo(image.apk))
       IN IF ok
          THEN /\ tools' = tools
               /\ IF names = <<>>
                  THEN apk' = <<>> /\ pc' = "dpkg"
                  ELSE apk' = <<[names |-> names, namesAndVersions |-> <<>>]>>
                       /\ pc' = "apkVersions"
          ELSE tools' = Append(tools, "apk info") /\ apk' = <<>> /\ pc' = "dpkg"
  /\ UNCHANGED <<casedSpec, result, processMode, document, links, queue, processControl, error, spec,
                 mavenVars, versionVars, dpkg, image>>

\* _getApk: apk info -v; an error rejects
GetApkVersions ==
  /\ pc = "apkVersions"
  /\ \E ok \in BOOLEAN :
       IF ok
       THEN /\ apk' = <<[apk[1] EXCEPT !.namesAndVersions = Trim(ApkInfoV(image.apk))]>>
            /\ pc' = "dpkg"
            /\ UNCHANGED <<tools, error>>
       ELSE Rejected("apk info -v") /\ apk' = apk
  /\ UNCHANGED <<casedSpec, result, processMode, document, links, queue, processControl, spec, mavenVars,
                 versionVars, dpkg, image>>

\* _getDpkg (an error resolves null), then the rest of handle: markSkip when neither
\* inventory was obtained, else the fetched document
GetDpkg ==
  /\ pc = "dpkg"
  /\ \E ok \in BOOLEAN :
       /\ tools' = IF ok THEN tools ELSE Append(tools, "dpkg --list")
       /\ dpkg' = IF ok THEN Trim(DpkgList(image.dpkg)) ELSE <<>>
  /\ IF apk = <<>> /\ dpkg' = <<>>
     THEN processControl' = "skip" /\ pc' = "skipped" /\ document' = document
     ELSE /\ document' = [apk |-> apk, dpkg |-> dpkg', location |-> <<>>]
          /\ pc' = "fetched"
          /\ processControl' = processControl
  /\ UNCHANGED <<casedSpec, result, processMode, links, queue, error, spec, mavenVars, versionVars, apk,
                 image>>

\* ---------------------------------------------------------------- DockerExtract
\* addEmbeddedComponent(document, url): the collection-member edge to the embedded package
EmbeddedComponent(url) == Link("collection-member", "collection", url)

PackageUrl(kind, name, version) == <<"cd:", kind, kind, "-", name, version>>

\* _queueDpkgs: one embedded component per line; the Request it builds is never queued
QueueDpkgs(doc) ==
  IF doc.dpkg = <<>> THEN <<>>
  ELSE LET dpkgList == Split(doc.dpkg, Newline)
       IN [i \in 1..Len(dpkgList) |->
             LET parts == Split(dpkgList[i], Delimiter)
             IN EmbeddedComponent(PackageUrl("dpkg", At(parts, 1), At(parts, 2)))]

\* _queueApks: names and name-version lines paired by index; the Request it builds is
\* never queued
QueueApks(doc) ==
  IF doc.apk = <<>> THEN <<>>
  ELSE LET apkNameList == Split(doc.apk[1].names, Newline)
           apkNameAndVersionList == Split(doc.apk[1].namesAndVersions, Newline)
       IN [i \in 1..Len(apkNameList) |->
             LET name == apkNameList[i]
                 version == ReplaceFirst(apkNameAndVersionList[i], name \o <<"-">>, <<>>)
             IN EmbeddedComponent(PackageUrl("apk", name, version))]

\* DockerExtract.handle on the fetched document
ExtractHandle ==
  /\ pc = "fetched"
  /\ links' = links \o QueueDpkgs(document) \o QueueApks(document)
  /\ queue' = queue
  /\ pc' = "extracted"
  /\ UNCHANGED <<casedSpec, result, processMode, document, processControl, error, spec, mavenVars,
                 versionVars, dockerVars>>

NextDocker ==
  \/ GetRevisionPull
  \/ GetRevisionInspect
  \/ GetApkNames
  \/ GetApkVersions
  \/ GetDpkg
  \/ ExtractHandle

SpecDocker == InitDocker /\ [][NextDocker]_vars

\* C7: whenever one of the external commands DockerFetch needs has failed, handle ends
\* without an error and with the request marked as skipped.
C7_ToolFailureSkips ==
  (tools # <<>> /\ pc \in {"failed", "skipped", "fetched", "extracted"}) =>
    pc = "skipped" /\ processControl = "skip" /\ error = ""

\* the lines of the inventories of the fetched document
ApkCount(doc) == IF doc.apk = <<>> THEN 0 ELSE Len(Split(doc.apk[1].names, Newline))
DpkgCount(doc) == IF doc.dpkg = <<>> THEN 0 ELSE Len(Split(doc.dpkg, Newline))

\* C8: after DockerExtract.handle there is exactly one collection-member edge and exactly
\* one follow-on work item for each of the n apk pairs and m dpkg records, edge and work
\* item of a pair naming the same identity.
C8_EdgeAndWorkItemPerPackage ==
  pc = "extracted" =>
    /\ Len(links) = ApkCount(document) + DpkgCount(document)
    /\ Len(queue) = ApkCount(document) + DpkgCount(document)
    /\ \A i \in 1..Len(links) :
         /\ links[i].name = "collection-member"
         /\ i <= Len(queue) /\ queue[i].url = links[i].target

\* the edges alone: one collection-member edge per line of the fetched inventories, and
\* for the package's own name and version when the name holds no delimiter
C8_EdgePerPackage ==
  pc = "extracted" =>
    /\ Len(links) = ApkCount(document) + DpkgCount(document)
    /\ \A i \in 1..Len(links) :
         LET inDpkg == i <= DpkgCount(document)
             p == IF inDpkg THEN image.dpkg[i] ELSE image.apk[i - DpkgCount(document)]
         IN /\ links[i].name = "collection-member"
            /\ IndexOf(p.name, Delimiter) = 0 =>
                 links[i] = EmbeddedComponent(PackageUrl(IF inDpkg THEN "dpkg" ELSE "apk",
                                                         p.name, p.version))

\* the text of line before and after the first occurrence of the delimiter
BeforeFirst(line) == SubSeq(line, 1, IndexOf(line, Delimiter) - 1)
AfterFirst(line) == SubSeq(line, IndexOf(line, Delimiter) + Len(Delimiter), Len(line))

\* C12: for every line of the dpkg inventory, the embedded component is named by the text
\* before the first '___' and versioned by all of the text after that first occurrence.
C12_SplitOnFirstDelimiter ==
  pc = "extracted" =>
    \A i \in 1..DpkgCount(document) :
      LET line == Split(document.dpkg, Newline)[i]
      IN IndexOf(line, Delimiter) # 0 =>
           links[i] = EmbeddedComponent(PackageUrl("dpkg", BeforeFirst(line), AfterFirst(line)))

\* ---------------------------------------------------------------- identities in place
MaxLinks == 3     \* most edges the calls on one request may emit before the model stops them

\* toSpec: request.casedSpec || EntitySpec.fromUrl(request.url); s is the identity the
\* request's url denotes.  With casedSpec set the result is that very object.
ToSpec(cs, s) == IF cs # <<>> THEN cs[1] ELSE s

\* an assignment to a field of the object toSpec returned, seen from request.casedSpec:
\* the same object when casedSpec is set, a fresh one otherwise
Carried(cs, edited) == IF cs # <<>> THEN <<edited>> ELSE cs

RequestSpecs ==
  {EntitySpec(t, "p", ns, "a", "1.0", "", "") : t \in {"npm", "docker"}, ns \in {"", "org"}}
CasedSpecs(s) ==
  {<<>>} \cup {<<[s EXCEPT !.tool = tl, !.toolVersion = tv]>> :
                 tl \in {"", "scancode"}, tv \in {"", "2.0"}}
ToolNames == {"scancode", "licensee"}

InitIdentity ==
  /\ pc = "start"
  /\ processMode = "process"
  /\ document = NoDocument
  /\ links = <<>> /\ queue = <<>> /\ processControl = "" /\ error = ""
  /\ spec \in RequestSpecs
  /\ casedSpec \in CasedSpecs(spec)
  /\ result = <<>>
  /\ tools = <<>> /\ apk = <<>> /\ dpkg = <<>>
  /\ image = [apk |-> <<[name |-> <<"a">>, version |-> <<"1">>]>>,
              dpkg |-> <<[name |-> <<"b">>, version |-> <<"2">>]>>]
  /\ IdleMaven /\ IdleVersion

\* the request is with a handler that is not inside DockerFetch.handle
Ready == pc \in {"start", "fetched"}

\* this.toSpec(request)
ToSpecCall ==
  /\ Ready
  /\ result' = <<ToSpec(casedSpec, spec)>>
  /\ UNCHANGED <<pc, processMode, document, links, queue, processControl, error, spec,
                 casedSpec, mavenVars, versionVars, dockerVars>>

\* this.getUrnFor(request)
GetUrnForCall ==
  /\ Ready
  /\ result' = GetUrnFor(ToSpec(casedSpec, spec))
  /\ UNCHANGED <<pc, processMode, document, links, queue, processControl, error, spec,
                 casedSpec, mavenVars, versionVars, dockerVars>>

\* this.addBasicToolLinks(request, this.toSpec(request))
AddBasicToolLinksOp ==
  /\ Ready
  /\ Len(links) + 2 <= MaxLinks
  /\ links' = links \o BasicToolLinks(ToSpec(casedSpec, spec))
  /\ UNCHANGED <<pc, processMode, document, queue, processControl, error, spec, casedSpec,
                 result, mavenVars, versionVars, dockerVars>>

\* this.linkAndQueue(request, 'source')
LinkAndQueueCall ==
  /\ Ready
  /\ Len(links) < MaxLinks
  /\ links' = links \o LinkAndQueueLinks("source", ToSpec(casedSpec, spec))
  /\ queue' = queue \o LinkAndQueueItems("source", ToSpec(casedSpec, spec))
  /\ UNCHANGED <<pc, processMode, document, processControl, error, spec, casedSpec,
                 result, mavenVars, versionVars, dockerVars>>

\* this.linkAndQueueTool(request, name): the url is taken first, then spec.tool = tool is
\* assigned on the object toSpec returned, then the urn is taken
LinkAndQueueToolCall ==
  /\ Ready
  /\ Len(links) < MaxLinks
  /\ \E tool \in ToolNames :
       LET s == ToSpec(casedSpec, spec)
           url == ToUrl(s)
           edited == [s EXCEPT !.tool = tool]
       IN /\ casedSpec' = Carried(casedSpec, edited)
          /\ links' = Append(links, Link(tool, "collection", ToUrn(edited)))
          /\ queue' = Append(queue, [type |-> tool, url |-> url])
  /\ UNCHANGED <<pc, processMode, document, processControl, error, spec, result,
                 mavenVars, versionVars, dockerVars>>

NextIdentity ==
  \/ ToSpecCall
  \/ GetUrnForCall
  \/ AddBasicToolLinksOp
  \/ LinkAndQueueCall
  \/ LinkAndQueueToolCall
  \/ GetRevisionPull
  \/ GetRevisionInspect
  \/ GetApkNames
  \/ GetApkVersions
  \/ GetDpkg

SpecIdentity == InitIdentity /\ [][NextIdentity]_vars

\* C11: no step of toSpec, getUrnFor, addBasicToolLinks, linkAndQueue, linkAndQueueTool
\* or DockerFetch.handle changes a field of the identity the request carries in casedSpec.
C11_CarriedIdentityUnchanged == [][casedSpec' = casedSpec]_vars

====
